---- MODULE Spec2Model ----
(***************************************************************************)
(* PyMOL KVFinder-web Tools: the worker thread (class Worker), the job     *)
(* records it reads and writes (class Job) and the part of the GUI thread  *)
(* that shares state with it (globals dialog and worker, the slots the     *)
(* worker's signals are connected to, the job file written on submission). *)
(*                                                                         *)
(* The worker thread runs Worker.run.  A GET request issued by             *)
(* Worker._get_results is asynchronous: the call returns at once and       *)
(* Worker._handle_get_response runs later, when the reply has finished,    *)
(* reading self.reply and self.job_info as they are at that moment.  The   *)
(* handler is a step of its own here and may be taken between any two      *)
(* steps of Worker.run.  A reply is in flight from the call of             *)
(* _get_results until the handler has run for it; what the service will    *)
(* answer is drawn when the request is issued.  Each call of _get_results  *)
(* replaces self.network_manager and self.reply; the manager released that *)
(* way takes its reply with it, so the handler never runs for a replaced   *)
(* reply.                                                                  *)
(***************************************************************************)
EXTENDS Integers, Sequences, FiniteSets, TLC

\* ---------------------------------------------------------------- bounds
\* Job ids that can have a directory under ~/.KVFinder-web
Ids == {"A", "B"}

\* Largest number of GET requests the service answers with
\* ContentNotFoundError
MaxExpired == 2

\* Largest number of jobs submitted through the GUI
MaxSubmits == 1

\* Largest number of server_status_signal(False) emissions counted within
\* one service check (the count stays there when more are sent)
MaxDownEmits == 2

\* Largest number of calls of one Job method on the same object
MaxCalls == 2

\* ------------------------------------------------------ program constants
\* times_job_completed_no_checked (500 in the source, scaled down)
times_job_completed_no_checked == 2

None == "none"

\* Job.status values written to job.toml
Status == {"queued", "running", "completed"}

\* Files written by Job.export, in the order export writes them
ExportOrder == <<"cavity", "results", "log", "parameters">>

Artifacts == {ExportOrder[k] : k \in 1..4}

\* QNetworkReply.error() of a finished GET reply, as distinguished by
\* Worker._handle_get_response: NoError carries the status of the body,
\* "notfound" is ContentNotFoundError, "refused" is ConnectionRefusedError,
\* "timeout" stands for TimeoutError and every other error code
Outcomes == {"running", "completed", "notfound", "refused", "timeout"}

\* why records the branch of run that made the request
NoReply == [id |-> None, st |-> "none", why |-> "no"]

NoJob == [id |-> None, id_added_manually |-> FALSE]

\* Why Worker.run calls _get_results for a job: its status is queued or
\* running ("unfinished"), it is completed and a result file is missing
\* ("missing"), it is completed, no file is missing and the counter has
\* reached times_job_completed_no_checked ("forced"); "no": not called
NotFetched == [i \in Ids |-> "no"]

\* No Job method is being called on its own
NoUnit == [op |-> "none"]

VARIABLES
    dialog,         \* global dialog: TRUE while it is not None
    worker,         \* global worker: TRUE once it is not None
    connected,      \* the worker's signals are connected to a live window
    store,          \* ~/.KVFinder-web/<id>/job.toml, per id
    files,          \* exported result files present on disk, per id
    pc,             \* position of the worker thread inside Worker.run
    wait,           \* Worker.wait
    server_status,  \* Worker.server_status
    counter,        \* local counter of Worker.run
    flag,           \* local flag of Worker.run
    jobs,           \* local jobs of Worker.run
    idx,            \* position of the for loop over jobs
    job_info,       \* Worker.job_info
    reply,          \* Worker.reply
    gui,            \* GUI thread: Job.save under way in _handle_post_response
    unacked,        \* ids whose "not available" message box is still shown
    passFetched,    \* why _get_results was called in the current pass, per id
    passCompleted,  \* ids whose GET of this pass the service answers completed
    refusedInPass,  \* a ConnectionRefusedError was handled in the current pass
    exportFailed,   \* a Job.export of the current pass raised
    truncated,      \* ids with a result file left incomplete by Job.export
    notfound,       \* ContentNotFoundError replies handled, per requested id
    expired,        \* number of id_signal emissions, per id
    submits,        \* number of times the user has pressed "Run KVFinder-web"
    posts,          \* number of POST requests sent to the service
    probes,         \* _check_server_status calls in the current service check
    downEmits,      \* server_status_signal(False) emissions in that check
    unit            \* a Job method called on its own: arguments and results

programVars == <<dialog, worker, connected, store, files, pc, wait,
                 server_status, counter, flag, jobs, idx, job_info, reply,
                 gui, unacked, passFetched, passCompleted, refusedInPass,
                 exportFailed, truncated, notfound, expired, submits, posts,
                 probes, downEmits>>

vars == <<programVars, unit>>

workerVars == <<pc, wait, server_status, counter, flag, jobs, idx, job_info,
                reply>>

guiVars == <<dialog, worker, connected, gui, unacked>>

histVars == <<passFetched, passCompleted, refusedInPass, exportFailed,
              notfound, expired, submits, probes, downEmits>>

diskVars == <<store, files, truncated>>

\* ------------------------------------------------------------------ Job
\* ~/.KVFinder-web/<id>: no directory ("absent"), a directory without
\* job.toml ("nofile"), a job.toml that is not completely written
\* ("partial"), or a complete job.toml ("ok") with the fields Job.save writes
NoFile(f) == [file |-> f, status |-> None, id_added_manually |-> FALSE]

Record(status, manual) ==
    [file |-> "ok", status |-> status, id_added_manually |-> manual]

Records == {Record(s, m) : s \in Status, m \in BOOLEAN}

\* A job.toml that Job.load can read
IsRecord(r) == r.file = "ok"

\* The result files of a job: a manually added job has no parameters file
Expected(manual) == IF manual THEN Artifacts \ {"parameters"} ELSE Artifacts

\* Worker._check_output_exists.  For a manually added job "parameters" is
\* True and os.path.exists(True) is asked: True is the integer 1, which
\* os.path.exists takes as a file descriptor, so the answer is whether the
\* standard output of the process is open (stdout); no exception is raised
\* and "except Exception: parameters_exist = True" is not reached
_check_output_exists(job, fs, stdout) ==
    /\ {"log", "results", "cavity"} \subseteq fs[job.id]
    /\ IF job.id_added_manually THEN stdout
                                ELSE "parameters" \in fs[job.id]

\* Numbers of files Job.export has opened for writing when it returns or is
\* stopped by an exception (0: os.mkdir or the first open raises; 4: every
\* file was opened, and an exception can only come from the write into the
\* last one, which then stays on disk incomplete)
ExportStops == {0, 4}

\* The files Job.export has opened, and so created, when it has got
\* through k of them (a manually added job skips the parameters file)
Written(manual, k) ==
    {ExportOrder[n] : n \in 1..k} \cap Expected(manual)

\* Job.export without the test "if not self.id_added_manually"
export_ignoring_manual(job, fs, k) ==
    [fs EXCEPT ![job.id] = @ \cup {ExportOrder[n] : n \in 1..k}]

export(job, fs, k) ==
    [fs EXCEPT ![job.id] = @ \cup Written(job.id_added_manually, k)]

\* Job.save(id) as the worker's reply handler calls it: creates the job
\* directory if needed and rewrites job.toml
save(job, status, st) ==
    [st EXCEPT ![job.id] = Record(status, job.id_added_manually)]

\* _get_jobs: the names os.listdir finds under ~/.KVFinder-web
_get_jobs(st) == {i \in Ids : st[i].file # "absent"}

\* os.listdir returns the names in arbitrary order
Orderings(S) ==
    {s \in UNION {[1..n -> S] : n \in {Cardinality(S)}} :
        \A a, b \in DOMAIN s : a # b => s[a] # s[b]}

RECURSIVE SumOver(_, _)
SumOver(f, S) ==
    IF S = {} THEN 0
    ELSE LET i == CHOOSE j \in S : TRUE IN f[i] + SumOver(f, S \ {i})

Total(f) == SumOver(f, DOMAIN f)

\* ----------------------------------------------------------------- Init
\* The state after PyMOLKVFinderWebTools.__init__ has started the worker:
\* the job directory holds the records of earlier sessions
Init ==
    /\ dialog = TRUE /\ worker = TRUE /\ connected = TRUE
    /\ store \in [Ids -> {NoFile("absent")} \cup Records]
    /\ store["A"] \in {NoFile("absent"), Record("queued", FALSE)}
    /\ store["B"] \in {NoFile("absent")}
                       \cup {Record("completed", m) : m \in BOOLEAN}
    /\ files \in [Ids -> SUBSET Artifacts]
    /\ \A i \in Ids :
          \/ files[i] = {}
          \/ /\ IsRecord(store[i]) /\ store[i].status = "completed"
             /\ files[i] = Expected(store[i].id_added_manually)
    /\ pc = "wait"
    /\ wait = FALSE
    /\ server_status \in BOOLEAN
    /\ counter = 0
    /\ flag = FALSE
    /\ jobs = <<>>
    /\ idx = 1
    /\ job_info = NoJob
    /\ reply = NoReply
    /\ gui = [pc |-> "idle", id |-> None]
    /\ unacked = {}
    /\ passFetched = NotFetched
    /\ passCompleted = {}
    /\ refusedInPass = FALSE
    /\ exportFailed = FALSE
    /\ truncated = {}
    /\ notfound = [i \in Ids |-> 0]
    /\ expired = [i \in Ids |-> 0]
    /\ submits = 0
    /\ posts = 0
    /\ probes = 0
    /\ downEmits = 0
    /\ unit = NoUnit

\* --------------------------------------------------------- Worker thread
\* Worker._get_results: a new QNetworkAccessManager and a new reply replace
\* the previous ones; the call returns without waiting for the answer o
\* that the service gives to this request
_get_results(job_id, why) ==
    \E o \in Outcomes :
       /\ o = "notfound" => Total(notfound) < MaxExpired
       /\ reply' = [id |-> job_id, st |-> o, why |-> why]
       /\ passFetched' = [passFetched EXCEPT ![job_id] = why]
       /\ passCompleted' = IF o = "completed"
                             THEN passCompleted \cup {job_id}
                             ELSE passCompleted \ {job_id}

\* Worker.run, "while self.wait": the thread leaves the loop only when it
\* reads the flag as False
WaitStatus ==
    /\ pc = "wait"
    /\ ~wait
    /\ pc' = "discover"
    /\ UNCHANGED <<wait, server_status, counter, flag, jobs, idx, job_info,
                   reply>>
    /\ UNCHANGED diskVars
    /\ UNCHANGED guiVars
    /\ UNCHANGED histVars
    /\ UNCHANGED <<posts, unit>>

\* Worker.run, from "jobs = _get_jobs()" to the test "if jobs and
\* self.server_status"
Discover ==
    /\ pc = "discover"
    /\ \E order \in Orderings(_get_jobs(store)) :
          /\ jobs' = order
          /\ IF order # <<>> /\ server_status
                THEN /\ pc' = "check"
                     /\ flag' = FALSE
                ELSE /\ pc' = "probe"
                     /\ flag' = flag
    /\ idx' = 1
    /\ passFetched' = NotFetched
    /\ passCompleted' = {}
    /\ refusedInPass' = FALSE
    /\ exportFailed' = FALSE
    /\ probes' = 0
    /\ downEmits' = 0
    /\ UNCHANGED <<wait, server_status, counter, job_info, reply>>
    /\ UNCHANGED <<store, files, truncated, notfound, expired, submits>>
    /\ UNCHANGED guiVars
    /\ UNCHANGED <<posts, unit>>

\* Worker.run, the test of the second branch with "else" in the place of
\* 'elif status == "completed"'
else_completed(status) == status \notin {"queued", "running"}

\* Worker.run, 'elif status == "completed"': a job whose status is none of
\* queued, running, completed is left alone
elif_completed(status) == status = "completed"

\* Worker.run, one iteration of "for job_id in jobs" including the timer
\* that follows it.  Job.load raises when job.toml is missing or incomplete
\* and nothing in run catches it.
CheckJob ==
    /\ pc = "check"
    /\ LET job_id == jobs[idx]
           rec == store[job_id]
           job == [id |-> job_id, id_added_manually |-> rec.id_added_manually]
           last == idx = Len(jobs)
       IN  \E stdout \in BOOLEAN :
           IF ~IsRecord(rec)
             THEN /\ pc' = "crashed"
                  /\ UNCHANGED <<counter, flag, idx, job_info, reply,
                                 passFetched, passCompleted>>
             ELSE /\ job_info' = job
                  /\ idx' = idx + 1
                  /\ pc' = IF last THEN "endpass" ELSE "check"
                  /\ IF rec.status \in {"queued", "running"}
                       THEN /\ _get_results(job_id, "unfinished")
                            /\ UNCHANGED <<counter, flag>>
                       ELSE IF ~elif_completed(rec.status)
                              THEN UNCHANGED <<counter, flag, reply,
                                               passFetched, passCompleted>>
                       ELSE IF ~_check_output_exists(job, files, stdout)
                              THEN /\ _get_results(job_id, "missing")
                                   /\ UNCHANGED <<counter, flag>>
                              ELSE /\ IF counter = times_job_completed_no_checked
                                        THEN /\ _get_results(job_id, "forced")
                                             /\ counter' = 0
                                        ELSE UNCHANGED <<counter, reply,
                                                         passFetched,
                                                         passCompleted>>
                                   /\ flag' = TRUE
    /\ UNCHANGED <<wait, server_status, jobs>>
    /\ UNCHANGED diskVars
    /\ UNCHANGED guiVars
    /\ UNCHANGED <<refusedInPass, exportFailed, notfound, expired, submits,
                   probes, downEmits>>
    /\ UNCHANGED <<posts, unit>>

\* Worker.run, "counter += 1" without the test "if flag"
count_every_pass(fl, c) == c + 1

\* Worker.run, "if flag: counter += 1"
count_pass(fl, c) == IF fl THEN c + 1 ELSE c

\* Worker.run, after the for loop: "if flag: counter += 1" and the timer
\* that restarts the job checks
EndPass ==
    /\ pc = "endpass"
    /\ counter' = count_pass(flag, counter)
    /\ flag' = FALSE
    /\ pc' = "alive"
    /\ UNCHANGED <<wait, server_status, jobs, idx, job_info, reply>>
    /\ UNCHANGED diskVars
    /\ UNCHANGED guiVars
    /\ UNCHANGED histVars
    /\ UNCHANGED <<posts, unit>>

\* Worker.run, else branch: "status = _check_server_status(self.server)".
\* _check_server_status returns True or False; on True the while loop is
\* skipped, self.server_status is set and server_status_signal(True) sent.
ServiceCheck ==
    /\ pc = "probe"
    /\ \E status \in BOOLEAN :
          /\ probes' = probes + 1
          /\ IF status
                THEN /\ server_status' = TRUE
                     /\ pc' = "alive"
                ELSE /\ server_status' = server_status
                     /\ pc' = "down"
    /\ UNCHANGED <<wait, counter, flag, jobs, idx, job_info, reply>>
    /\ UNCHANGED diskVars
    /\ UNCHANGED guiVars
    /\ UNCHANGED <<passFetched, passCompleted, refusedInPass, exportFailed,
                   notfound, expired, submits, downEmits>>
    /\ UNCHANGED <<posts, unit>>

\* Worker.run, "while not status", first half of an iteration: the loop
\* tests the local status, which nothing assigns inside the loop, and
\* server_status_signal(False) is sent
ServerDownLoop ==
    /\ pc = "down"
    /\ downEmits' = IF downEmits < MaxDownEmits THEN downEmits + 1
                                                ELSE downEmits
    /\ pc' = "downtimer"
    /\ UNCHANGED <<wait, server_status, counter, flag, jobs, idx, job_info,
                   reply>>
    /\ UNCHANGED diskVars
    /\ UNCHANGED guiVars
    /\ UNCHANGED <<passFetched, passCompleted, refusedInPass, exportFailed,
                   notfound, expired, submits, probes>>
    /\ UNCHANGED <<posts, unit>>

\* Worker.run, "while not status", second half: the time_server_down timer
\* runs out and control returns to the test of the loop
ServerDownTimer ==
    /\ pc = "downtimer"
    /\ pc' = "down"
    /\ UNCHANGED <<wait, server_status, counter, flag, jobs, idx, job_info,
                   reply>>
    /\ UNCHANGED diskVars
    /\ UNCHANGED guiVars
    /\ UNCHANGED histVars
    /\ UNCHANGED <<posts, unit>>

\* Worker.run, "if dialog is None: self.terminate()", the last statement
\* of the outer loop.  (jobs and the loop position are not read again
\* before Discover assigns them.)
CheckDialog ==
    /\ pc = "alive"
    /\ pc' = IF dialog THEN "wait" ELSE "terminated"
    /\ jobs' = <<>>
    /\ idx' = 1
    /\ passFetched' = NotFetched
    /\ passCompleted' = {}
    /\ refusedInPass' = FALSE
    /\ exportFailed' = FALSE
    /\ probes' = 0
    /\ downEmits' = 0
    /\ UNCHANGED <<wait, server_status, counter, flag, job_info, reply>>
    /\ UNCHANGED <<store, files, truncated, notfound, expired, submits>>
    /\ UNCHANGED guiVars
    /\ UNCHANGED <<posts, unit>>

\* ------------------------------------------ Worker._handle_get_response
\* Worker.erase_job_dir inside try/except: the directory is removed, or an
\* exception leaves it in place
erase_job_dir(job, st, ok) ==
    IF ok THEN [st EXCEPT ![job.id] = NoFile("absent")] ELSE st

\* The slot connected to self.reply.finished
_handle_get_response ==
    /\ reply # NoReply
    /\ pc \notin {"terminated", "crashed"}
    /\ reply' = NoReply
    /\ CASE reply.st \in Status ->
              /\ store' = save(job_info, reply.st, store)
              /\ IF reply.st = "completed"
                   THEN \E k \in ExportStops, raised \in BOOLEAN :
                          /\ k < 4 => raised
                          /\ files' = export(job_info, files, k)
                          /\ exportFailed' = (exportFailed \/ raised)
                          /\ truncated' =
                               IF ~raised THEN truncated \ {job_info.id}
                               ELSE IF k = 4
                                      THEN truncated \cup {job_info.id}
                                      ELSE truncated
                   ELSE UNCHANGED <<files, exportFailed, truncated>>
              /\ UNCHANGED <<wait, unacked, notfound, expired, refusedInPass>>
         [] reply.st = "notfound" ->
              /\ wait' = TRUE
              /\ expired' = [expired EXCEPT ![job_info.id] = @ + 1]
              /\ unacked' = IF connected THEN unacked \cup {job_info.id}
                                         ELSE unacked
              /\ notfound' = [notfound EXCEPT ![reply.id] = @ + 1]
              /\ \E ok \in BOOLEAN : store' = erase_job_dir(job_info, store, ok)
              /\ UNCHANGED <<files, exportFailed, truncated, refusedInPass>>
         [] reply.st = "refused" ->
              /\ refusedInPass' = TRUE
              /\ UNCHANGED <<store, files, wait, unacked, notfound, expired,
                             exportFailed, truncated>>
         [] reply.st = "timeout" ->
              UNCHANGED <<store, files, wait, unacked, notfound, expired,
                          exportFailed, truncated, refusedInPass>>
    /\ UNCHANGED <<pc, server_status, counter, flag, jobs, idx, job_info>>
    /\ UNCHANGED <<dialog, worker, connected, gui>>
    /\ UNCHANGED <<passFetched, passCompleted, submits, probes, downEmits>>
    /\ UNCHANGED <<posts, unit>>

\* ------------------------------------------------------------ GUI thread
\* PyMOLKVFinderWebTools.closeEvent
closeEvent ==
    /\ dialog
    /\ gui.pc = "idle"
    /\ unacked = {}
    /\ dialog' = FALSE
    /\ connected' = FALSE
    /\ UNCHANGED <<worker, gui, unacked>>
    /\ UNCHANGED workerVars
    /\ UNCHANGED diskVars
    /\ UNCHANGED histVars
    /\ UNCHANGED <<posts, unit>>

\* run_plugin_gui after the window was closed: a new window is built, and
\* PyMOLKVFinderWebTools.__init__ starts a worker only "if worker is None"
run_plugin_gui ==
    /\ ~dialog
    /\ dialog' = TRUE
    /\ worker' = TRUE
    /\ connected' = (IF worker THEN connected ELSE TRUE)
    /\ UNCHANGED <<gui, unacked>>
    /\ UNCHANGED workerVars
    /\ UNCHANGED diskVars
    /\ UNCHANGED histVars
    /\ UNCHANGED <<posts, unit>>

\* PyMOLKVFinderWebTools.msg_results_not_available: the user closes the
\* message box and msgbox_signal(False) reaches Worker.wait_status (the
\* comparison with QMessageBox.Ok is evaluated and is true)
wait_status ==
    /\ \E i \in unacked : unacked' = unacked \ {i}
    /\ wait' = FALSE
    /\ UNCHANGED <<pc, server_status, counter, flag, jobs, idx, job_info,
                   reply>>
    /\ UNCHANGED <<dialog, worker, connected, gui>>
    /\ UNCHANGED diskVars
    /\ UNCHANGED histVars
    /\ UNCHANGED <<posts, unit>>

\* PyMOLKVFinderWebTools.msg_results_not_available when the comparison
\* "message.exec() == QtWidgets.QMessageBox.Ok" raises: PyQt6 gives access
\* to an enum member only through its enum (QMessageBox.StandardButton.Ok),
\* so the attribute lookup fails after the user has closed the box, the
\* slot ends there and msgbox_signal is not emitted
MsgBoxRaises ==
    /\ \E i \in unacked : unacked' = unacked \ {i}
    /\ UNCHANGED <<dialog, worker, connected, gui>>
    /\ UNCHANGED workerVars
    /\ UNCHANGED diskVars
    /\ UNCHANGED histVars
    /\ UNCHANGED <<posts, unit>>

\* Job.status as PyMOLKVFinderWebTools.create_parameters sets it
submitting == "submitting"

\* Job.status after 'self.job.status = "queued"' in _handle_post_response
queued == "queued"

\* PyMOLKVFinderWebTools.run: the user presses "Run KVFinder-web", a Job is
\* made from the form and one POST request is sent
run ==
    /\ dialog
    /\ gui.pc = "idle"
    /\ submits < MaxSubmits
    /\ submits' = submits + 1
    /\ posts' = posts + 1
    /\ gui' = [pc |-> "posting", id |-> None]
    /\ UNCHANGED <<dialog, worker, connected, unacked>>
    /\ UNCHANGED workerVars
    /\ UNCHANGED diskVars
    /\ UNCHANGED <<passFetched, passCompleted, refusedInPass, exportFailed,
                   notfound, expired, probes, downEmits>>
    /\ UNCHANGED unit

\* QNetworkReply.error() values of a POST reply that
\* _handle_post_response tells apart from NoError: ConnectionRefusedError,
\* UnknownContentError (payload too large), TimeoutError, any other
PostErrors == {"refused", "too_large", "timeout", "other"}

\* ~/.KVFinder-web after _handle_post_response has handled an error: the
\* branches show a message and call neither Job.save nor Job.export
post_error_saving(st, er) ==
    [st EXCEPT !["A"] = Record(queued, FALSE)]

post_error(st, er) == st

\* PyMOLKVFinderWebTools._handle_post_response, reply with an error
PostError ==
    /\ gui.pc = "posting"
    /\ \E er \in PostErrors : store' = post_error(store, er)
    /\ gui' = [pc |-> "idle", id |-> None]
    /\ UNCHANGED <<dialog, worker, connected, unacked>>
    /\ UNCHANGED workerVars
    /\ UNCHANGED <<files, truncated>>
    /\ UNCHANGED histVars
    /\ UNCHANGED <<posts, unit>>

\* PyMOLKVFinderWebTools._handle_post_response, reply without "output":
\* Job.save(id) writes the file of the new job in three steps.
\* os.mkdir(job_dn) ...
SaveMkdir ==
    /\ gui.pc = "posting"
    /\ UNCHANGED submits
    /\ \E i \in Ids :
          /\ store[i].file = "absent"
          /\ gui' = [pc |-> "mkdir", id |-> i]
          /\ store' = [store EXCEPT ![i] = NoFile("nofile")]
    /\ UNCHANGED <<dialog, worker, connected, unacked>>
    /\ UNCHANGED workerVars
    /\ UNCHANGED <<files, truncated>>
    /\ UNCHANGED <<passFetched, passCompleted, refusedInPass, exportFailed,
                   notfound, expired, probes, downEmits>>
    /\ UNCHANGED <<posts, unit>>

\* ... open(job_fn, "w") creates job.toml ...
SaveOpen ==
    /\ gui.pc = "mkdir"
    /\ gui' = [gui EXCEPT !.pc = "open"]
    /\ store' = [store EXCEPT ![gui.id] = NoFile("partial")]
    /\ UNCHANGED <<dialog, worker, connected, unacked>>
    /\ UNCHANGED workerVars
    /\ UNCHANGED <<files, truncated>>
    /\ UNCHANGED histVars
    /\ UNCHANGED <<posts, unit>>

\* ... and the file is complete when the with block is left
SaveClose ==
    /\ gui.pc = "open"
    /\ gui' = [pc |-> "idle", id |-> None]
    /\ store' = [store EXCEPT ![gui.id] = Record(queued, FALSE)]
    /\ UNCHANGED <<dialog, worker, connected, unacked>>
    /\ UNCHANGED workerVars
    /\ UNCHANGED <<files, truncated>>
    /\ UNCHANGED histVars
    /\ UNCHANGED <<posts, unit>>

\* --------------------------------------------------------- specification
WorkerNext ==
    \/ WaitStatus
    \/ Discover
    \/ CheckJob
    \/ EndPass
    \/ ServiceCheck
    \/ ServerDownLoop
    \/ ServerDownTimer
    \/ CheckDialog

Next ==
    \/ WorkerNext
    \/ _handle_get_response
    \/ wait_status
    \/ MsgBoxRaises
    \/ closeEvent
    \/ run_plugin_gui

Spec == Init /\ [][Next]_vars

\* The worker thread is scheduled as long as it can take a step
FairSpec == Spec /\ WF_vars(WorkerNext)

\* The GUI thread also submits jobs
NextSubmit ==
    \/ WorkerNext
    \/ _handle_get_response
    \/ wait_status
    \/ MsgBoxRaises
    \/ run
    \/ PostError
    \/ SaveMkdir
    \/ SaveOpen
    \/ SaveClose

SpecSubmit == Init /\ [][NextSubmit]_vars

\* A status in job.toml that is none of queued, running, completed:
\* Job.load takes the string of the file as it is, and the handler of the
\* worker writes reply["status"] as the service sent it
OtherStatus == "other"

\* As Init, with a job.toml that holds such a status
InitFile ==
    /\ dialog = TRUE /\ worker = TRUE /\ connected = TRUE
    /\ store \in [Ids -> {NoFile("absent"), Record(OtherStatus, FALSE)}
                             \cup Records]
    /\ store["A"] \in {NoFile("absent"), Record(OtherStatus, FALSE)}
    /\ store["B"] \in {NoFile("absent")}
                       \cup {Record("completed", m) : m \in BOOLEAN}
    /\ files \in [Ids -> SUBSET Artifacts]
    /\ \A i \in Ids :
          \/ files[i] = {}
          \/ /\ IsRecord(store[i]) /\ store[i].status = "completed"
             /\ files[i] = Expected(store[i].id_added_manually)
    /\ pc = "wait"
    /\ wait = FALSE
    /\ server_status \in BOOLEAN
    /\ counter = 0
    /\ flag = FALSE
    /\ jobs = <<>>
    /\ idx = 1
    /\ job_info = NoJob
    /\ reply = NoReply
    /\ gui = [pc |-> "idle", id |-> None]
    /\ unacked = {}
    /\ passFetched = NotFetched
    /\ passCompleted = {}
    /\ refusedInPass = FALSE
    /\ exportFailed = FALSE
    /\ truncated = {}
    /\ notfound = [i \in Ids |-> 0]
    /\ expired = [i \in Ids |-> 0]
    /\ submits = 0
    /\ posts = 0
    /\ probes = 0
    /\ downEmits = 0
    /\ unit = NoUnit

\* The window stays open and no job is submitted
NextFile ==
    \/ WorkerNext
    \/ _handle_get_response
    \/ wait_status
    \/ MsgBoxRaises

SpecFile == InitFile /\ [][NextFile]_vars

\* ------------------------------------------- Job methods on their own
\* The state in which nothing of the worker or the GUI has happened: the
\* job directory is empty and the worker thread is at the top of run
Idle ==
    /\ dialog = TRUE /\ worker = TRUE /\ connected = TRUE
    /\ store = [i \in Ids |-> NoFile("absent")]
    /\ files = [i \in Ids |-> {}]
    /\ pc = "wait"
    /\ wait = FALSE
    /\ server_status = TRUE
    /\ counter = 0
    /\ flag = FALSE
    /\ jobs = <<>>
    /\ idx = 1
    /\ job_info = NoJob
    /\ reply = NoReply
    /\ gui = [pc |-> "idle", id |-> None]
    /\ unacked = {}
    /\ passFetched = NotFetched
    /\ passCompleted = {}
    /\ refusedInPass = FALSE
    /\ exportFailed = FALSE
    /\ truncated = {}
    /\ notfound = [i \in Ids |-> 0]
    /\ expired = [i \in Ids |-> 0]
    /\ submits = 0
    /\ posts = 0
    /\ probes = 0
    /\ downEmits = 0

\* Job.output: the responses of the service a job can hold
Outputs == {"output1", "output2"}

\* The text Job.export writes into a result file: the cavity, results and
\* log files are made from self.output (the log also from self.id), the
\* parameters file from the job's own pdb, ligand and settings
Chunk(f, job) ==
    IF f = "parameters" THEN [file |-> f, of |-> job.id, from |-> "input"]
    ELSE [file |-> f, of |-> job.id, from |-> job.output]

\* open(fn, "a") followed by f.write(text)
open_a(old, text) == Append(old, text)

\* open(fn, "w") followed by f.write(text): the file holds the text written
\* and nothing of what it held before
open_w(old, text) == <<text>>

\* Job.export on the content of output_directory/id (<<>>: no such file)
export_files(job, dir) ==
    [f \in Artifacts |->
        IF f \in Expected(job.id_added_manually)
          THEN open_w(dir[f], Chunk(f, job))
          ELSE dir[f]]

EmptyDir == [f \in Artifacts |-> <<>>]

\* A completed job with its output, and a directory that holds any of the
\* result files of an earlier export
InitExport ==
    /\ Idle
    /\ unit \in [op : {"export"},
                  job : [id : Ids, id_added_manually : BOOLEAN,
                         output : Outputs],
                  dir : [Artifacts -> {<<>>, <<"old">>}],
                  n : {0},
                  first : {EmptyDir}]

\* job.export() is called once more; the directory after the first call is
\* kept for comparison
ExportCall ==
    /\ unit.op = "export"
    /\ unit.n < MaxCalls
    /\ unit' = [unit EXCEPT
                   !.dir = export_files(unit.job, @),
                   !.n = @ + 1,
                   !.first = IF unit.n = 0
                               THEN export_files(unit.job, unit.dir)
                               ELSE @]
    /\ UNCHANGED programVars

SpecExport == InitExport /\ [][ExportCall]_vars

\* Characters of the strings a job holds: a letter that is no escape
\* character of TOML, the letter n and the backslash.  Paths also hold the
\* separator "/" and the extension ".pdb"; "NL" is the newline character.
Chars == {"a", "n", "BS"}

\* Longest output_directory, in characters
MaxLen == 2

Strings == UNION {[1..n -> Chars] : n \in 1..MaxLen}

\* Job.base_name, typed by the user
BaseNames == {<<"a">>, <<"a", "n">>}

\* Names of the input structure (<<>>: the job has none)
PdbNames == {<<>>, <<"a">>, <<"a", ".pdb", "n">>}

\* os.path.join(self.output_directory, name + ".pdb")
join(dir, name) == dir \o <<"/">> \o name \o <<".pdb">>

\* os.path.basename(path)
RECURSIVE basename(_)
basename(path) ==
    IF \A k \in DOMAIN path : path[k] # "/" THEN path
    ELSE basename(Tail(path))

\* str.replace(".pdb", "")
strip_pdb(name) == SelectSeq(name, LAMBDA c : c # ".pdb")

\* The fields of a Job object that Job.save writes, as Job.upload sets them
\* from parameters
upload(parameters) ==
    [status |-> parameters.status,
     id_added_manually |-> parameters.id_added_manually,
     output_directory |-> parameters.output,
     base_name |-> parameters.base_name,
     pdb |-> IF parameters.pdb = <<>> THEN <<>>
             ELSE join(parameters.output, parameters.pdb),
     settings |-> parameters.settings]

\* The Job objects the GUI creates: settings are None for a manually added
\* job
Jobs ==
    {upload([status |-> s, id_added_manually |-> m, output |-> o,
             base_name |-> b, pdb |-> p,
             settings |-> IF m THEN None ELSE "settings"]) :
        s \in Status, m \in BOOLEAN, o \in Strings, b \in BaseNames,
        p \in PdbNames}

\* Job.save: job.toml as text.  Each string field is written between double
\* quotes exactly as it is held (f'output = "{self.output_directory}"');
\* the pdb line is written only when self.pdb is not None; toml.dump writes
\* no key for a None setting
toml_text(job) ==
    [status |-> <<job.status>>,
     id_added_manually |-> job.id_added_manually,
     pdb |-> job.pdb,
     output |-> job.output_directory,
     base_name |-> job.base_name,
     settings |-> job.settings]

\* toml.load on a basic string: a backslash starts an escape sequence; \n
\* is a newline, \\ a backslash, any other sequence is rejected; a
\* backslash in front of the closing quote leaves the string unterminated.
\* [ok |-> FALSE] : toml.load raises
BadString == [ok |-> FALSE, text |-> <<>>]

RECURSIVE ReadString(_)
ReadString(raw) ==
    IF raw = <<>> THEN [ok |-> TRUE, text |-> <<>>]
    ELSE IF Head(raw) = "BS"
      THEN IF Len(raw) = 1 THEN BadString
           ELSE LET rest == ReadString(SubSeq(raw, 3, Len(raw)))
                    char == IF raw[2] = "n" THEN "NL" ELSE "BS"
                IN  IF raw[2] \in {"n", "BS"} /\ rest.ok
                      THEN [ok |-> TRUE, text |-> <<char>> \o rest.text]
                      ELSE BadString
      ELSE LET rest == ReadString(Tail(raw))
           IN  IF rest.ok
                 THEN [ok |-> TRUE, text |-> <<Head(raw)>> \o rest.text]
                 ELSE BadString

\* Job.load: toml.load, the pdb entry reduced to its name, then Job(...)
\* which calls upload.  [ok |-> FALSE] : load raises
load(text) ==
    LET output == ReadString(text.output)
        base_name == ReadString(text.base_name)
        pdb == ReadString(text.pdb)
    IN  IF output.ok /\ base_name.ok /\ pdb.ok
          THEN [ok |-> TRUE,
                job |-> upload([status |-> text.status[1],
                                id_added_manually |-> text.id_added_manually,
                                output |-> output.text,
                                base_name |-> base_name.text,
                                pdb |-> strip_pdb(basename(pdb.text)),
                                settings |-> text.settings])]
          ELSE [ok |-> FALSE, job |-> NoJob]

\* A Job object as Job.upload builds it, about to be saved
InitRecord ==
    /\ Idle
    /\ unit \in [op : {"record"}, job : Jobs, step : {"new"}]

\* job.save(id)
SaveRecord ==
    /\ unit.op = "record" /\ unit.step = "new"
    /\ unit' = [op |-> "record", job |-> unit.job, step |-> "saved",
                text |-> toml_text(unit.job)]
    /\ UNCHANGED programVars

\* Job.load(fn) on the file just written
LoadRecord ==
    /\ unit.op = "record" /\ unit.step = "saved"
    /\ unit' = [op |-> "record", job |-> unit.job, step |-> "loaded",
                text |-> unit.text, loaded |-> load(unit.text)]
    /\ UNCHANGED programVars

\* save(id) of the loaded object
SaveLoaded ==
    /\ unit.op = "record" /\ unit.step = "loaded"
    /\ unit.loaded.ok
    /\ unit' = [op |-> "record", job |-> unit.job, step |-> "resaved",
                text |-> unit.text, loaded |-> unit.loaded,
                again |-> toml_text(unit.loaded.job)]
    /\ UNCHANGED programVars

NextRecord == SaveRecord \/ LoadRecord \/ SaveLoaded

SpecRecord == InitRecord /\ [][NextRecord]_vars

\* ================================================================ claims
\* The step calls _get_results for id i
Fetches(i) == passFetched[i] = "no" /\ passFetched'[i] # "no"

\* The step calls _check_server_status
Probes == probes' = probes + 1

\* The worker thread has left Worker.run
Stopped == pc \in {"terminated", "crashed"}

\* C1: once a GET for an id was answered ContentNotFoundError and the
\* answer was handled, the job directory of that id is gone and id_signal
\* was emitted exactly once for that id, also when erase_job_dir raised.
C1_ExpiredJobErasedAndNotifiedOnce ==
    \A i \in Ids :
        notfound[i] > 0 => (store[i].file = "absent" /\ expired[i] = 1)

\* C2: while Worker.wait is True no step of the worker thread calls
\* _get_results or _check_server_status, the jobs left in the current pass
\* included.
C2_NoRemoteCallWhileWaiting ==
    [][wait => ~(Probes \/ \E i \in Ids : Fetches(i))]_vars

\* C3: within one service check every server_status_signal(False) follows
\* a failed call of _check_server_status of its own: the signal is never
\* emitted more often than the service was probed.
C3_EveryDownSignalHasItsProbe == downEmits <= probes

\* C4: A was queued and B completed with a result file missing, the pass
\* called _get_results for both, the service answers B's request with
\* status completed and no request with an error.  When the pass is over
\* and no reply is left in flight, all expected result files of B are on
\* disk, unless Job.export raised.
C4_MissingResultsExportedAfterPass ==
    (/\ pc = "alive" /\ reply = NoReply
     /\ passFetched["A"] = "unfinished"
     /\ passFetched["B"] = "missing" /\ "B" \in passCompleted
     /\ ~exportFailed /\ ~refusedInPass /\ Total(notfound) = 0)
        => Expected(store["B"].id_added_manually) \subseteq files["B"]

\* C5: a failed remote call does not keep the worker thread from its next
\* pass: after _check_server_status has returned False the thread reaches
\* "jobs = _get_jobs()" again.
C5_FailedCallReachesDiscover == (pc = "down") ~> (pc = "discover")

\* C6: as long as the GUI is alive (dialog is not None) the worker thread
\* is running.
C6_RunningWhileDialogAlive == dialog => ~Stopped

\* C7: if the GUI is torn down for good (dialog stays None), the worker
\* thread eventually leaves Worker.run.
C7_TornDownEventuallyStops == (<>[](~dialog)) => <>Stopped

\* C8: after a ConnectionRefusedError was handled during a pass, the pass
\* calls _get_results for none of the remaining jobs.
C8_RefusedSkipsRemainingJobs ==
    [][(refusedInPass /\ pc = "check") => ~(\E i \in Ids : Fetches(i))]_vars

\* C9: _get_results is never called for an id while the reply to an
\* earlier GET for the same id is still in flight.
C9_NoTwoFetchesInFlight ==
    [][\A i \in Ids : Fetches(i) => reply.id # i]_vars

\* C10: no job.toml is ever missing or incomplete at the moment the worker
\* lists the job directories or loads the file of a listed job.
C10_SaveIsAtomic ==
    [][/\ (pc = "discover" /\ pc' # "discover") =>
             \A i \in Ids : store[i].file \notin {"nofile", "partial"}
       /\ (pc = "check" /\ <<pc, idx>>' # <<pc, idx>>) =>
             store[jobs[idx]].file \notin {"nofile", "partial"}]_vars

C13_ManualJobHasNoParametersFile ==
    \A i \in Ids :
        (IsRecord(store[i]) /\ store[i].id_added_manually) =>
            "parameters" \notin files[i]

\* C13 witness: the manually added job B had a result file missing in this
\* pass, was fetched, answered completed, and the handler has exported it.
C13_ManualJobExported ==
    /\ IsRecord(store["B"]) /\ store["B"].id_added_manually
    /\ passFetched["B"] = "missing" /\ "B" \in passCompleted
    /\ reply = NoReply
    /\ files["B"] = Expected(TRUE)

\* C14: when Job.export has been called twice or more on the same job with
\* the same output, the result files and their content are those the first
\* call left: three files for a manually added job, four otherwise.
C14_ExportIsIdempotent ==
    (unit.op = "export" /\ unit.n >= 2) =>
        /\ unit.dir = unit.first
        /\ \A f \in Expected(unit.job.id_added_manually) :
              unit.dir[f] = <<Chunk(f, unit.job)>>

\* C14 witness: a job that is not manually added has been exported twice
\* and each of its four result files holds text.
C14_ExportedTwice ==
    /\ unit.op = "export" /\ unit.n = 2
    /\ ~unit.job.id_added_manually
    /\ \A f \in Artifacts : unit.dir[f] # <<>>

C16_SubmittedJobIsQueued ==
    [][(gui.pc = "open" /\ gui'.pc = "idle") =>
          (IsRecord(store'[gui.id]) /\ store'[gui.id].status = "queued")]_vars

\* C16 witness: B, which had no record or a completed one at the start, has
\* been submitted and its job.toml written.
C16_JobSubmitted ==
    /\ submits = 1 /\ gui.pc = "idle"
    /\ IsRecord(store["B"]) /\ store["B"].status = "queued"

\* C17: the step in which _handle_post_response handles a reply with an
\* error (connection refused, payload too large, timeout, any other)
\* creates, changes and removes nothing under ~/.KVFinder-web or among the
\* result files and sends no POST request.
C17_FailedSubmitChangesNothing ==
    [][(gui.pc = "posting" /\ gui'.pc = "idle") =>
          (store' = store /\ files' = files /\ posts' = posts)]_vars

\* C17 witness: the user has submitted once, the reply was an error and
\* has been handled; no job directory exists and one POST has been sent.
C17_SubmitFailed ==
    /\ submits = 1 /\ posts = 1 /\ gui.pc = "idle"
    /\ \A i \in Ids : store[i].file = "absent"
    /\ Total(notfound) = 0

\* C18: a GET reply with TimeoutError is handled like one with
\* ConnectionRefusedError: the handler leaves job.toml as it is and emits
\* server_down (refusedInPass records that emission; the step is taken
\* where none was made in the pass yet).
C18_TimeoutHandledAsServiceDown ==
    [][(reply.st = "timeout" /\ reply' = NoReply /\ ~refusedInPass) =>
          (store' = store /\ refusedInPass')]_vars

\* C19: Job.load failing on a job.toml that is missing or incomplete does
\* not end the worker thread: run goes on with the next job and the next
\* pass, so the thread is never stopped by that exception.
C19_UnloadableRecordIsSkipped == pc # "crashed"

\* C20: the handler exports the results of a job only when that job's
\* record was not yet completed (the export that follows the job becoming
\* completed), or when the answer it handles was requested for that job as
\* a re-validation: by a pass that found an expected artifact missing or
\* by the forced fetch of every Nth pass.
C20_ExportOnlyOnceOrAsRevalidation ==
    [][(reply.st = "completed" /\ reply' = NoReply) =>
          \/ store[job_info.id].status \in {"queued", "running"}
          \/ /\ reply.id = job_info.id
             /\ reply.why \in {"missing", "forced"}]_vars

\* C21: from "jobs = _get_jobs()" the thread enters the for loop over the
\* jobs exactly when self.server_status is true and the list is not empty,
\* and goes to _check_server_status in every other case; and the iteration
\* for a job whose status is none of queued, running, completed calls
\* _get_results for no job.
C21_DiscoverBranchesOnStatusAndJobs ==
    [][/\ (pc = "discover" /\ pc' # pc) =>
            /\ pc' \in {"check", "probe"}
            /\ pc' = "check" <=> (server_status /\ _get_jobs(store) # {})
       /\ (pc = "check" /\ idx' = idx + 1
             /\ store[jobs[idx]].status \notin Status) =>
            /\ reply' = reply
            /\ \A i \in Ids : ~Fetches(i)]_vars

\* C21 (witness): a pass has gone through the job A, whose status is none of
\* the three and whose result files are missing, without a request
C21_OtherStatusChecked ==
    /\ pc \in {"check", "endpass"}
    /\ idx > 1 /\ jobs[idx - 1] = "A"
    /\ store["A"].status = OtherStatus
    /\ files["A"] = {}
    /\ passFetched["A"] = "no"

\* C22: when the handler has dealt with a ConnectionRefusedError the worker
\* holds the service to be down: self.server_status is False, the value
\* with which the next "if jobs and self.server_status" sends the thread
\* to _check_server_status and not into the for loop over the jobs.
C22_RefusedMarksServiceDown ==
    [][(reply.st = "refused" /\ reply' = NoReply) => ~server_status']_vars

\* C23: the iteration of run for a job whose status is queued or running
\* calls _get_results for it; when the handler takes an answer without
\* error, job.toml of the job the request was made for holds the status of
\* the answer, and result files are written only if that status is
\* completed.
C23_UnfinishedJobFetchedAndUpdated ==
    [][/\ (pc = "check" /\ idx' = idx + 1
             /\ store[jobs[idx]].status \in {"queued", "running"}) =>
            Fetches(jobs[idx])
       /\ (reply.st \in Status /\ reply' = NoReply) =>
            /\ store'[reply.id].status = reply.st
            /\ files' # files => reply.st = "completed"]_vars

\* C24: the iteration of run for a job whose status is completed calls
\* _get_results for it when one of its result files is missing (the log,
\* results and cavity files, and the parameters file unless the job was
\* added manually); when none is missing it calls _get_results for no job
\* unless counter equals times_job_completed_no_checked.
C24_CompletedJobFetchedOnlyWhenMissingOrForced ==
    [][(pc = "check" /\ idx' = idx + 1
          /\ store[jobs[idx]].status = "completed") =>
         LET i == jobs[idx]
             present == Expected(store[i].id_added_manually) \subseteq files[i]
         IN  /\ ~present => Fetches(i)
             /\ (present /\ counter # times_job_completed_no_checked) =>
                   /\ reply' = reply
                   /\ \A j \in Ids : ~Fetches(j)]_vars

\* C25: counter changes in two places only.  The iteration of run for a
\* completed job with all its result files sets it to zero, and requests
\* the job, when it equals times_job_completed_no_checked, and marks the
\* pass (flag); no other iteration changes counter or marks the pass.  The
\* end of a pass adds exactly one to counter when the pass is marked and
\* leaves it alone otherwise.  Every other step of the worker, the service
\* check and the waits included, leaves counter as it is.
C25_CounterCountsValidatedPasses ==
    [][/\ (pc = "check" /\ idx' = idx + 1) =>
            LET i == jobs[idx]
                seen == /\ store[i].status = "completed"
                        /\ Expected(store[i].id_added_manually)
                               \subseteq files[i]
                forced == seen /\ counter = times_job_completed_no_checked
            IN  /\ flag' = (flag \/ seen)
                /\ counter' = IF forced THEN 0 ELSE counter
                /\ forced => Fetches(i)
       /\ (pc = "endpass" /\ pc' # pc) =>
            counter' = IF flag THEN counter + 1 ELSE counter
       /\ (~(pc = "check" /\ idx' = idx + 1)
             /\ ~(pc = "endpass" /\ pc' # pc)) =>
            counter' = counter]_vars

\* C26: when the handler takes an answer without error, job.toml and the
\* result files of every job other than the one the request was made for
\* stay as they are.
C26_AnswerAppliedToRequestedJob ==
    [][(reply.st \in Status /\ reply' = NoReply) =>
          \A i \in Ids \ {reply.id} :
             store'[i] = store[i] /\ files'[i] = files[i]]_vars

\* C27: when the handler takes a ContentNotFoundError, the only job whose
\* directory is erased and for which id_signal is emitted is the job the
\* request was made for: job.toml of every other job stays and no
\* id_signal carries another id.
C27_OnlyExpiredJobIsErased ==
    [][(reply.st = "notfound" /\ reply' = NoReply) =>
          \A i \in Ids \ {reply.id} :
             store'[i] = store[i] /\ expired'[i] = expired[i]]_vars

\* C28: counter is never below zero and never above
\* times_job_completed_no_checked, so the test "counter ==
\* times_job_completed_no_checked" cannot be stepped over.
C28_CounterWithinBound ==
    counter \in 0..times_job_completed_no_checked

\* C28 (witness): counter has reached times_job_completed_no_checked, the
\* next pass has made the forced request and set it back, and the end of
\* that pass has counted from there
C28_CounterWentRound ==
    /\ pc = "alive"
    /\ \E i \in Ids : passFetched[i] = "forced"
    /\ counter = 1

\* A completed job whose result files all exist
Validated(i) ==
    /\ IsRecord(store[i])
    /\ store[i].status = "completed"
    /\ Expected(store[i].id_added_manually) \subseteq files[i]

\* C29: a completed job whose result files all exist is requested again
\* at some later time, unless it stops being such a job, the worker thread
\* has left run or waits for the user, or the service does not answer the
\* status check.
C29_ValidatedJobEventuallyFetchedAgain ==
    \A i \in Ids :
       Validated(i) ~> \/ passFetched[i] # "no"
                       \/ ~Validated(i)
                       \/ Stopped
                       \/ wait
                       \/ pc \in {"down", "downtimer"}

\* Worker threads inside Worker.run: a thread is started only while the
\* global worker is None, so there is never more than the one of Init
Pollers == IF worker /\ ~Stopped THEN 1 ELSE 0

\* C30: while the window is open (dialog is not None) exactly one worker
\* thread is running, also after the window was closed and opened again.
C30_OnePollerWhileWindowOpen == dialog => (Pollers = 1)

====
